---- MODULE Spec2Model ----
(***************************************************************************)
(* Model of src/training_pipeline/training.py: the optimizer resolver      *)
(* get_optimizer and the epoch loop run_training_loop.                     *)
(*                                                                         *)
(* Python's None is the empty sequence <<>>, a present value v is <<v>>.   *)
(* Floats are integers; a quotient is kept as a reduced fraction <<n, d>>. *)
(***************************************************************************)
EXTENDS Integers, Sequences, FiniteSets, TLC

----------------------------------------------------------------------------
(* Bounds *)

\* hyperparameter values range over -1 .. MaxHyper
MaxHyper == 1
\* a run has 0 .. MaxEpochs epochs
MaxEpochs == 2
\* a data provider yields 0 .. MaxBatches batches
MaxBatches == 2
\* a batch is one of MaxLoss contents, told apart by the loss 1 .. MaxLoss
\* the model has on it
MaxLoss == 2
\* the internal state of an optimizer instance is changed at most MaxSteps times
MaxSteps == 2

None == <<>>
Some(v) == <<v>>
IsNone(x) == x = <<>>
Val(x) == x[1]

----------------------------------------------------------------------------
(* get_optimizer *)

\* the identifiers a caller may pass: the spellings of the source, other
\* casings of them, an unrelated word, and None
OptimizerNames ==
    { None } \cup
    { Some(s) : s \in { "adam", "Adam", "ADAM", "sgd", "SGD", "Sgd",
                        "rmsprop", "RMSprop", "RMSProp", "RMSPROP",
                        "unknown" } }

HyperValues == { None } \cup { Some(v) : v \in (0 - 1) .. MaxHyper }

Raised(exc) ==
    [ status |-> "raised", exc |-> exc, family |-> "-",
      lr |-> None, weight_decay |-> None, momentum |-> None ]

Built(family, lr, weight_decay, momentum) ==
    [ status |-> "ok", exc |-> "-", family |-> family,
      lr |-> lr, weight_decay |-> weight_decay, momentum |-> momentum ]

\* a constructor argument check "not 0.0 <= x" / "x < 0.0": comparing None
\* with a float raises TypeError, a negative value raises ValueError
CheckArg(x) ==
    IF IsNone(x) THEN "TypeError"
    ELSE IF Val(x) < 0 THEN "ValueError"
    ELSE "-"

FirstFailure(checks) ==
    IF \E i \in 1 .. Len(checks) : checks[i] # "-"
    THEN checks[CHOOSE i \in 1 .. Len(checks) :
                    /\ checks[i] # "-"
                    /\ \A j \in 1 .. (i - 1) : checks[j] = "-"]
    ELSE "-"

\* Adam(params, lr, weight_decay): checks lr, then weight_decay; takes no momentum
AdamCtor(lr, weight_decay, momentum) ==
    LET f == FirstFailure(<< CheckArg(lr), CheckArg(weight_decay) >>)
    IN  IF f # "-" THEN Raised(f) ELSE Built("Adam", lr, weight_decay, None)

\* SGD(params, lr, momentum, weight_decay): checks lr, momentum, weight_decay
SGDCtor(lr, weight_decay, momentum) ==
    LET f == FirstFailure(<< CheckArg(lr), CheckArg(momentum), CheckArg(weight_decay) >>)
    IN  IF f # "-" THEN Raised(f) ELSE Built("SGD", lr, weight_decay, momentum)

\* RMSprop(params, lr, weight_decay, momentum): checks lr, momentum, weight_decay
RMSpropCtor(lr, weight_decay, momentum) ==
    LET f == FirstFailure(<< CheckArg(lr), CheckArg(momentum), CheckArg(weight_decay) >>)
    IN  IF f # "-" THEN Raised(f) ELSE Built("RMSprop", lr, weight_decay, momentum)

\* the keys of optimizers_and_likely_spellings, flattened per spelling
AdamSpellings == { "adam", "Adam" }
SGDSpellings == { "sgd", "SGD" }
\* (variant: the third spelling of the RMSprop key is left out)
RMSpropSpellingsShort == { "rmsprop", "RMSprop" }
RMSpropSpellings == { "rmsprop", "RMSprop", "RMSProp" }
Spellings == AdamSpellings \cup SGDSpellings \cup RMSpropSpellings

\* optimizer_for_each_spelling[spelling], given the three built optimizers
optimizer_for_each_spelling(spelling, adam, sgd, rmsprop) ==
    IF spelling \in AdamSpellings THEN adam
    ELSE IF spelling \in SGDSpellings THEN sgd
    ELSE rmsprop

\* (variant: the default branch looks up another family)
DefaultSpellingSGD == "sgd"
\* the spelling looked up when optimizer_name is None
DefaultSpelling == "adam"

\* the branch taken once the dictionary of the three optimizers is built
Lookup(optimizer_name, adam, sgd, rmsprop) ==
    IF (~IsNone(optimizer_name)) /\ Val(optimizer_name) \in Spellings
    THEN optimizer_for_each_spelling(Val(optimizer_name), adam, sgd, rmsprop)
    ELSE IF IsNone(optimizer_name)
    THEN optimizer_for_each_spelling(DefaultSpelling, adam, sgd, rmsprop)
    ELSE Raised("NotImplementedError")

\* the dictionary literal builds Adam, SGD and RMSprop in that order, whatever
\* the name; the first constructor that raises ends the call
get_optimizer(optimizer_name, learning_rate, weight_decay, momentum) ==
    LET adam == AdamCtor(learning_rate, weight_decay, momentum)
        sgd == SGDCtor(learning_rate, weight_decay, momentum)
        rmsprop == RMSpropCtor(learning_rate, weight_decay, momentum)
    IN  IF adam.status = "raised" THEN adam
        ELSE IF sgd.status = "raised" THEN sgd
        ELSE IF rmsprop.status = "raised" THEN rmsprop
        ELSE Lookup(optimizer_name, adam, sgd, rmsprop)

----------------------------------------------------------------------------
(* State *)

VARIABLES
    \* the call of get_optimizer made by train()
    rpc, optimizer_name, learning_rate, weight_decay, momentum, chosen_optimizer,
    \* the internal state (step counter, buffers) of every optimizer object
    \* the calls constructed, by object; the objects the calls returned, in
    \* order; history: the changes made through each returned object
    instances, handles, applied,
    \* the arguments of run_training_loop
    num_epochs, save,
    \* the position in run_training_loop and the exception that ended it
    pc, error,
    \* len(train_iterator), len(val_iterator)
    train_len, val_len,
    \* the device chosen, the device of the model, the device of images/labels
    device, model_device, batch_device,
    \* model_fn.training ("train" / "eval"), torch.is_grad_enabled()
    mode, grad_enabled,
    \* backward passes accumulated in the gradients, optimizer steps applied
    \* to the parameters
    grads, params,
    \* the loop variable: the index of the epoch running, then of the next one
    epoch,
    \* the position in the two batch streams of the epoch
    train_idx, val_idx,
    \* the per-batch values computed last
    training_loss, labels, predictions,
    training_loss_total, training_loss_avg,
    val_total, val_avg,
    \* the calls the telemetry sink received, in order, as (kind, epoch); the
    \* arguments of the latest log_metrics and log_confusion_matrix calls
    telemetry, logged_metrics, logged_confusion,
    \* the parameter states written to durable storage, in order
    storage,
    \* the value returned
    result,
    \* history: how many training batches of each loss, and how many
    \* validation batches of each content, the current epoch has observed
    train_seen, val_seen

resolve_vars ==
    << rpc, optimizer_name, learning_rate, weight_decay, momentum, chosen_optimizer,
       instances, handles, applied >>

loop_vars ==
    << num_epochs, save, pc, error, train_len, val_len, device, model_device,
       batch_device, mode, grad_enabled, grads, params, epoch, train_idx, val_idx,
       training_loss, labels, predictions, training_loss_total, training_loss_avg,
       val_total, val_avg, telemetry, logged_metrics, logged_confusion, storage,
       result, train_seen, val_seen >>

vars == << resolve_vars, loop_vars >>

----------------------------------------------------------------------------
(* Fractions: the result of total / count *)

RECURSIVE GCD(_, _)
GCD(a, b) == IF b = 0 THEN a ELSE GCD(b, a % b)

\* total / count as a fraction in lowest terms; <<0, 0>> is not a number
Div(total, count) ==
    LET g == GCD(total, count)
    IN  IF g = 0 THEN << 0, 0 >> ELSE << total \div g, count \div g >>

\* (variant: a division that yields not-a-number instead of raising)
DivisionNeverRaises(count) == FALSE

\* float / int with a zero divisor raises ZeroDivisionError
DivisionRaises(count) == count = 0

Zeros == [ loss |-> 0, accuracy |-> 0, recall |-> 0, precision |-> 0 ]
Unbound == [ loss |-> None, accuracy |-> None, recall |-> None, precision |-> None ]

\* The loss function and the three torchmetrics objects are callables handed
\* in from outside; each is a function of the batch's output and labels.  A
\* batch is identified by the loss b the model has on it, and the three
\* metrics fall as the loss rises, each on a scale of its own.
Batches == 1 .. MaxLoss
criterion(b) == b
accuracy(b) == MaxLoss - b
recall(b) == 2 * (MaxLoss - b) + 1
precision(b) == 3 * (MaxLoss - b) + 2

\* the four values of one validation batch
ValBatchValues(b) ==
    [ loss |-> criterion(b), accuracy |-> accuracy(b),
      recall |-> recall(b), precision |-> precision(b) ]

\* no batch observed; one more batch of kind b observed
NoneSeen == [ b \in Batches |-> 0 ]
Observe(seen, b) == [ seen EXCEPT ![b] = @ + 1 ]

----------------------------------------------------------------------------
(* The call of get_optimizer *)

NotCalled ==
    [ status |-> "pending", exc |-> "-", family |-> "-",
      lr |-> None, weight_decay |-> None, momentum |-> None ]

\* run_training_loop before its first statement
LoopInit ==
    /\ pc = "start"
    /\ error = "-"
    /\ train_len = 0
    /\ val_len = 0
    /\ device = "-"
    /\ model_device = "-"
    /\ batch_device = "-"
    /\ mode = "train"
    /\ grad_enabled = TRUE
    /\ grads = 0
    /\ params = 0
    /\ epoch = 0
    /\ train_idx = 0
    /\ val_idx = 0
    /\ training_loss = None
    /\ labels = None
    /\ predictions = None
    /\ training_loss_total = 0
    /\ training_loss_avg = None
    /\ val_total = Zeros
    /\ val_avg = Unbound
    /\ telemetry = <<>>
    /\ logged_metrics = [ epoch |-> None, training_loss |-> None,
                          val_loss |-> None, accuracy |-> None,
                          recall |-> None, precision |-> None ]
    /\ logged_confusion = [ y_true |-> None, y_predicted |-> None ]
    /\ storage = <<>>
    /\ result = None
    /\ train_seen = NoneSeen
    /\ val_seen = NoneSeen

\* any call of get_optimizer, not yet made; the loop is not run
ResolveInit ==
    /\ rpc = "call"
    /\ optimizer_name \in OptimizerNames
    /\ learning_rate \in HyperValues
    /\ weight_decay \in HyperValues
    /\ momentum \in HyperValues
    /\ chosen_optimizer = NotCalled
    /\ instances = <<>>
    /\ handles = <<>>
    /\ applied = <<>>
    /\ num_epochs = 0
    /\ save = FALSE
    /\ LoopInit

\* (variant: the optimizers are built once and kept, every call returns
\* the objects of the first call)
InstanceOfShared(family, base) ==
    CASE family = "Adam" -> 1
      [] family = "SGD" -> 2
      [] family = "RMSprop" -> 3

\* Adam(...), SGD(...) and RMSprop(...) are evaluated inside the function, so
\* every call constructs three new objects, after the base that exist
InstanceOf(family, base) ==
    CASE family = "Adam" -> base + 1
      [] family = "SGD" -> base + 2
      [] family = "RMSprop" -> base + 3

\* the objects after a call with outcome r, and the object it returned
Constructed(r) ==
    IF r.status = "ok" THEN instances \o << 0, 0, 0 >> ELSE instances

Handed(r) ==
    IF r.status = "ok"
    THEN Append(handles, InstanceOf(r.family, Len(instances)))
    ELSE handles

\* chosen_optimizer = get_optimizer(...)
GetOptimizer ==
    /\ rpc = "call"
    /\ chosen_optimizer' =
           get_optimizer(optimizer_name, learning_rate, weight_decay, momentum)
    /\ instances' = Constructed(chosen_optimizer')
    /\ handles' = Handed(chosen_optimizer')
    /\ applied' = [ i \in 1 .. Len(handles') |-> 0 ]
    /\ rpc' = "returned"
    /\ UNCHANGED << optimizer_name, learning_rate, weight_decay, momentum >>
    /\ UNCHANGED loop_vars

\* a second call of get_optimizer with the arguments of the first
GetOptimizerAgain ==
    /\ rpc = "returned"
    /\ Len(handles) = 1
    /\ chosen_optimizer' =
           get_optimizer(optimizer_name, learning_rate, weight_decay, momentum)
    /\ instances' = Constructed(chosen_optimizer')
    /\ handles' = Handed(chosen_optimizer')
    /\ applied' = Append(applied, 0)
    /\ UNCHANGED << rpc, optimizer_name, learning_rate, weight_decay, momentum >>
    /\ UNCHANGED loop_vars

\* optimizer.step() on one of the optimizers returned: its internal state
\* (step counter, momentum buffers) changes
OptimizerStateChange ==
    /\ rpc = "returned"
    /\ \E i \in 1 .. Len(handles) :
          /\ applied[i] < MaxSteps
          /\ instances' = [ instances EXCEPT ![handles[i]] = @ + 1 ]
          /\ applied' = [ applied EXCEPT ![i] = @ + 1 ]
    /\ UNCHANGED << rpc, optimizer_name, learning_rate, weight_decay, momentum,
                    chosen_optimizer, handles >>
    /\ UNCHANGED loop_vars

ResolveNext ==
    \/ GetOptimizer
    \/ GetOptimizerAgain
    \/ OptimizerStateChange

SpecResolve == ResolveInit /\ [][ResolveNext]_vars

----------------------------------------------------------------------------
(* run_training_loop *)

\* (variant: the call that puts the model in training mode is missing)
model_fn_train_missing(m) == m

\* model_fn.train()
model_fn_train(m) == "train"

\* model_fn.eval()
model_fn_eval(m) == "eval"

\* (variant: the gradients are not cleared before a batch)
zero_grad_missing(g) == g

\* optimizer.zero_grad()
zero_grad(g) == 0

\* (variant: the batch is left on the device the loader produced it on)
to_missing(origin, target) == origin

\* images.to(device), labels.to(device)
to(origin, target) == target

\* the device a data loader produces its batches on
LoaderDevice == "cpu"

\* (variant: the validation iterator of the epoch before is iterated on)
iter_exhausted(position) == position

\* iter(make_dataset(path=VAL_DATA_DIR, ...)): a pass from the first batch
iter(position) == 0

\* (variant: gradient tracking is switched off and not restored)
no_grad_exit_missing(enabled) == enabled

\* leaving the with torch.no_grad() block re-enables gradient tracking
no_grad_exit(enabled) == TRUE

\* (variant: the epoch is reported as epoch + 1, as in the log line)
MetricsEventOneBased(e, train_avg, avg) ==
    [ epoch |-> Some(e + 1), training_loss |-> train_avg, val_loss |-> avg.loss,
      accuracy |-> avg.accuracy, recall |-> avg.recall,
      precision |-> avg.precision ]

\* the val_metrics dictionary handed to experiment.log_metrics
MetricsEvent(e, train_avg, avg) ==
    [ epoch |-> Some(e), training_loss |-> train_avg, val_loss |-> avg.loss,
      accuracy |-> avg.accuracy, recall |-> avg.recall,
      precision |-> avg.precision ]

\* the arguments handed to experiment.log_confusion_matrix
ConfusionEvent(y_true, y_predicted) ==
    [ y_true |-> y_true, y_predicted |-> y_predicted ]

\* one call received by the telemetry sink
Call(kind, e) == [ kind |-> kind, epoch |-> e ]

\* a run of the loop on the optimizer train() resolved
LoopStartInit ==
    /\ rpc = "returned"
    /\ optimizer_name = None
    /\ learning_rate = Some(1)
    /\ weight_decay = Some(0)
    /\ momentum = Some(0)
    /\ chosen_optimizer =
           get_optimizer(optimizer_name, learning_rate, weight_decay, momentum)
    /\ instances = << 0, 0, 0 >>
    /\ handles = << 1 >>
    /\ applied = << 0 >>
    /\ num_epochs \in 0 .. MaxEpochs
    /\ save \in BOOLEAN
    /\ LoopInit

\* metrics, training data, device
Start ==
    /\ pc = "start"
    /\ train_len' \in 0 .. MaxBatches
    /\ device' \in { "cuda", "cpu" }
    /\ model_device' = device'
    /\ pc' = "epoch_head"
    /\ UNCHANGED << num_epochs, save, error, val_len, batch_device, mode,
                    grad_enabled, grads, params, epoch, train_idx, val_idx,
                    training_loss, labels, predictions, training_loss_total,
                    training_loss_avg, val_total, val_avg, telemetry, logged_metrics, logged_confusion, storage,
                    result, train_seen, val_seen >>
    /\ UNCHANGED resolve_vars

\* (variant: training_loss_total is set once, not in every epoch)
EpochBeginKeepsTotal ==
    /\ pc = "epoch_head"
    /\ epoch < num_epochs
    /\ mode' = model_fn_train(mode)
    /\ train_idx' = 0
    /\ train_seen' = NoneSeen
    /\ val_seen' = NoneSeen
    /\ pc' = "train_head"
    /\ UNCHANGED << num_epochs, save, error, train_len, val_len, device,
                    model_device, batch_device, grad_enabled, grads, params,
                    epoch, val_idx, training_loss, labels, predictions,
                    training_loss_total, training_loss_avg, val_total, val_avg,
                    telemetry, logged_metrics, logged_confusion, storage, result >>
    /\ UNCHANGED resolve_vars

\* for epoch in range(num_epochs): training mode, training_loss_total = 0.0
EpochBegin ==
    /\ pc = "epoch_head"
    /\ epoch < num_epochs
    /\ mode' = model_fn_train(mode)
    /\ training_loss_total' = 0
    /\ train_idx' = 0
    /\ train_seen' = NoneSeen
    /\ val_seen' = NoneSeen
    /\ pc' = "train_head"
    /\ UNCHANGED << num_epochs, save, error, train_len, val_len, device,
                    model_device, batch_device, grad_enabled, grads, params,
                    epoch, val_idx, training_loss, labels, predictions,
                    training_loss_avg, val_total, val_avg, telemetry, logged_metrics, logged_confusion, storage,
                    result >>
    /\ UNCHANGED resolve_vars

\* the next training batch: optimizer.zero_grad()
TrainZeroGrad ==
    /\ pc = "train_head"
    /\ train_idx < train_len
    /\ grads' = zero_grad(grads)
    /\ pc' = "train_forward"
    /\ UNCHANGED << num_epochs, save, error, train_len, val_len, device,
                    model_device, batch_device, mode, grad_enabled, params,
                    epoch, train_idx, val_idx, training_loss, labels,
                    predictions, training_loss_total, training_loss_avg,
                    val_total, val_avg, telemetry, logged_metrics, logged_confusion, storage, result,
                    train_seen, val_seen >>
    /\ UNCHANGED resolve_vars

\* images, labels to the device; forward; training_loss = criterion(...)
TrainForward ==
    /\ pc = "train_forward"
    /\ batch_device' = to(LoaderDevice, device)
    /\ labels' = << "train", epoch, train_idx >>
    /\ \E b \in Batches : training_loss' = Some(criterion(b))
    /\ pc' = "train_backward"
    /\ UNCHANGED << num_epochs, save, error, train_len, val_len, device,
                    model_device, mode, grad_enabled, grads, params, epoch,
                    train_idx, val_idx, predictions, training_loss_total,
                    training_loss_avg, val_total, val_avg, telemetry, logged_metrics, logged_confusion, storage,
                    result, train_seen, val_seen >>
    /\ UNCHANGED resolve_vars

\* training_loss.backward(): adds this batch's gradient to the gradients held
TrainBackward ==
    /\ pc = "train_backward"
    /\ grads' = grads + 1
    /\ pc' = "train_step"
    /\ UNCHANGED << num_epochs, save, error, train_len, val_len, device,
                    model_device, batch_device, mode, grad_enabled, params,
                    epoch, train_idx, val_idx, training_loss, labels,
                    predictions, training_loss_total, training_loss_avg,
                    val_total, val_avg, telemetry, logged_metrics, logged_confusion, storage, result,
                    train_seen, val_seen >>
    /\ UNCHANGED resolve_vars

\* optimizer.step(); training_loss_total += training_loss.item()
TrainStep ==
    /\ pc = "train_step"
    /\ params' = params + grads
    /\ training_loss_total' = training_loss_total + Val(training_loss)
    /\ train_seen' = Observe(train_seen, Val(training_loss))
    /\ train_idx' = train_idx + 1
    /\ pc' = "train_head"
    /\ UNCHANGED << num_epochs, save, error, train_len, val_len, device,
                    model_device, batch_device, mode, grad_enabled, grads,
                    epoch, val_idx, training_loss, labels, predictions,
                    training_loss_avg, val_total, val_avg, telemetry, logged_metrics, logged_confusion, storage,
                    result, val_seen >>
    /\ UNCHANGED resolve_vars

\* the training stream is exhausted: training_loss_avg, evaluation mode, the
\* validation totals, a fresh validation pass, torch.no_grad() entered
TrainEnd ==
    /\ pc = "train_head"
    /\ train_idx = train_len
    /\ IF DivisionRaises(train_len)
       THEN /\ pc' = "failed"
            /\ error' = "ZeroDivisionError"
            /\ UNCHANGED << training_loss_avg, mode, val_total, val_len,
                            val_idx, grad_enabled >>
       ELSE /\ training_loss_avg' = Div(training_loss_total, train_len)
            /\ mode' = model_fn_eval(mode)
            /\ val_total' = Zeros
            /\ val_len' \in 0 .. MaxBatches
            /\ val_idx' = iter(val_idx)
            /\ grad_enabled' = FALSE
            /\ pc' = "val_head"
            /\ UNCHANGED error
    /\ UNCHANGED << num_epochs, save, train_len, device, model_device,
                    batch_device, grads, params, epoch, train_idx,
                    training_loss, labels, predictions, training_loss_total,
                    val_avg, telemetry, logged_metrics, logged_confusion, storage, result, train_seen, val_seen >>
    /\ UNCHANGED resolve_vars

\* (variant: the validation loop also calls optimizer.step())
ValBatchSteps ==
    /\ pc = "val_head"
    /\ val_idx < val_len
    /\ batch_device' = to(LoaderDevice, device)
    /\ labels' = << "val", epoch, val_idx >>
    /\ predictions' = << "val", epoch, val_idx >>
    /\ \E b \in Batches :
          /\ val_total' = [ loss |-> val_total.loss + criterion(b),
                            recall |-> val_total.recall + recall(b),
                            accuracy |-> val_total.accuracy + accuracy(b),
                            precision |-> val_total.precision + precision(b) ]
          /\ val_seen' = Observe(val_seen, b)
    /\ val_idx' = val_idx + 1
    /\ params' = params + grads
    /\ UNCHANGED << num_epochs, save, pc, error, train_len, val_len, device,
                    model_device, mode, grad_enabled, grads, epoch,
                    train_idx, training_loss, training_loss_total,
                    training_loss_avg, val_avg, telemetry, logged_metrics, logged_confusion, storage, result,
                    train_seen >>
    /\ UNCHANGED resolve_vars

\* (variant: the validation loop does not rebind labels)
ValBatchKeepsLabels ==
    /\ pc = "val_head"
    /\ val_idx < val_len
    /\ batch_device' = to(LoaderDevice, device)
    /\ UNCHANGED labels
    /\ predictions' = << "val", epoch, val_idx >>
    /\ \E b \in Batches :
          /\ val_total' = [ loss |-> val_total.loss + criterion(b),
                            recall |-> val_total.recall + recall(b),
                            accuracy |-> val_total.accuracy + accuracy(b),
                            precision |-> val_total.precision + precision(b) ]
          /\ val_seen' = Observe(val_seen, b)
    /\ val_idx' = val_idx + 1
    /\ UNCHANGED << num_epochs, save, pc, error, train_len, val_len, device,
                    model_device, mode, grad_enabled, grads, params, epoch,
                    train_idx, training_loss, training_loss_total,
                    training_loss_avg, val_avg, telemetry, logged_metrics, logged_confusion, storage, result,
                    train_seen >>
    /\ UNCHANGED resolve_vars

\* one validation batch: forward, loss, predictions, the three metrics, totals
ValBatch ==
    /\ pc = "val_head"
    /\ val_idx < val_len
    /\ batch_device' = to(LoaderDevice, device)
    /\ labels' = << "val", epoch, val_idx >>
    /\ predictions' = << "val", epoch, val_idx >>
    /\ \E b \in Batches :
          /\ val_total' = [ loss |-> val_total.loss + criterion(b),
                            recall |-> val_total.recall + recall(b),
                            accuracy |-> val_total.accuracy + accuracy(b),
                            precision |-> val_total.precision + precision(b) ]
          /\ val_seen' = Observe(val_seen, b)
    /\ val_idx' = val_idx + 1
    /\ UNCHANGED << num_epochs, save, pc, error, train_len, val_len, device,
                    model_device, mode, grad_enabled, grads, params, epoch,
                    train_idx, training_loss, training_loss_total,
                    training_loss_avg, val_avg, telemetry, logged_metrics, logged_confusion, storage, result,
                    train_seen >>
    /\ UNCHANGED resolve_vars

\* the validation stream is exhausted: the four averages, the val_metrics
\* dictionary, experiment.log_metrics
ValEnd ==
    /\ pc = "val_head"
    /\ val_idx = val_len
    /\ IF DivisionRaises(val_len)
       THEN /\ pc' = "failed"
            /\ error' = "ZeroDivisionError"
            /\ grad_enabled' = no_grad_exit(grad_enabled)
            /\ UNCHANGED << val_avg, telemetry, logged_metrics >>
       ELSE /\ val_avg' = [ loss |-> Div(val_total.loss, val_len),
                            recall |-> Div(val_total.recall, val_len),
                            accuracy |-> Div(val_total.accuracy, val_len),
                            precision |-> Div(val_total.precision, val_len) ]
            /\ logged_metrics' = MetricsEvent(epoch, training_loss_avg, val_avg')
            /\ telemetry' = Append(telemetry, Call("metrics", epoch))
            /\ pc' = "log_confusion"
            /\ UNCHANGED << error, grad_enabled >>
    /\ UNCHANGED << num_epochs, save, train_len, val_len, device, model_device,
                    batch_device, mode, grads, params, epoch, train_idx,
                    val_idx, training_loss, labels, predictions,
                    training_loss_total, training_loss_avg, val_total,
                    logged_confusion, storage, result, train_seen, val_seen >>
    /\ UNCHANGED resolve_vars

\* experiment.log_confusion_matrix(y_true=labels, y_predicted=predictions);
\* the torch.no_grad() block ends and the loop goes to the next epoch
LogConfusionMatrix ==
    /\ pc = "log_confusion"
    /\ logged_confusion' = ConfusionEvent(labels, predictions)
    /\ telemetry' = Append(telemetry, Call("confusion", epoch))
    /\ grad_enabled' = no_grad_exit(grad_enabled)
    /\ epoch' = epoch + 1
    /\ pc' = "epoch_head"
    /\ UNCHANGED << num_epochs, save, error, train_len, val_len, device,
                    model_device, batch_device, mode, grads, params, train_idx,
                    val_idx, training_loss, labels, predictions,
                    training_loss_total, training_loss_avg, val_total, val_avg,
                    logged_metrics, storage, result, train_seen, val_seen >>
    /\ UNCHANGED resolve_vars

\* (variant: the parameters are written whatever the save flag is)
SaveModelAlways ==
    /\ pc = "epoch_head"
    /\ epoch >= num_epochs
    /\ \/ /\ storage' = Append(storage, params)
          /\ pc' = "return"
          /\ UNCHANGED error
       \/ /\ pc' = "failed"
          /\ error' = "OSError"
          /\ UNCHANGED storage
    /\ UNCHANGED << num_epochs, save, train_len, val_len, device, model_device,
                    batch_device, mode, grad_enabled, grads, params, epoch,
                    train_idx, val_idx, training_loss, labels, predictions,
                    training_loss_total, training_loss_avg, val_total, val_avg,
                    telemetry, logged_metrics, logged_confusion, result, train_seen, val_seen >>
    /\ UNCHANGED resolve_vars

\* after the loop: if save: torch.save(model_fn.state_dict(), MODELS_DIR),
\* which writes the parameters or raises
SaveModel ==
    /\ pc = "epoch_head"
    /\ epoch >= num_epochs
    /\ IF save
       THEN \/ /\ storage' = Append(storage, params)
               /\ pc' = "return"
               /\ UNCHANGED error
            \/ /\ pc' = "failed"
               /\ error' = "OSError"
               /\ UNCHANGED storage
       ELSE /\ pc' = "return"
            /\ UNCHANGED << storage, error >>
    /\ UNCHANGED << num_epochs, save, train_len, val_len, device, model_device,
                    batch_device, mode, grad_enabled, grads, params, epoch,
                    train_idx, val_idx, training_loss, labels, predictions,
                    training_loss_total, training_loss_avg, val_total, val_avg,
                    telemetry, logged_metrics, logged_confusion, result, train_seen, val_seen >>
    /\ UNCHANGED resolve_vars

\* (variant: the third value returned is the recall average)
ReturnRecall ==
    /\ pc = "return"
    /\ IF IsNone(val_avg.loss)
       THEN /\ pc' = "failed"
            /\ error' = "UnboundLocalError"
            /\ UNCHANGED result
       ELSE /\ result' = << val_avg.loss, val_avg.accuracy, val_avg.recall,
                            val_avg.precision >>
            /\ pc' = "done"
            /\ UNCHANGED error
    /\ UNCHANGED << num_epochs, save, train_len, val_len, device, model_device,
                    batch_device, mode, grad_enabled, grads, params, epoch,
                    train_idx, val_idx, training_loss, labels, predictions,
                    training_loss_total, training_loss_avg, val_total, val_avg,
                    telemetry, logged_metrics, logged_confusion, storage, train_seen, val_seen >>
    /\ UNCHANGED resolve_vars

\* return [val_loss_avg, val_accuracy_avg, val_loss_avg, val_precision_avg];
\* the names are unbound when no epoch ran
Return ==
    /\ pc = "return"
    /\ IF IsNone(val_avg.loss)
       THEN /\ pc' = "failed"
            /\ error' = "UnboundLocalError"
            /\ UNCHANGED result
       ELSE /\ result' = << val_avg.loss, val_avg.accuracy, val_avg.loss,
                            val_avg.precision >>
            /\ pc' = "done"
            /\ UNCHANGED error
    /\ UNCHANGED << num_epochs, save, train_len, val_len, device, model_device,
                    batch_device, mode, grad_enabled, grads, params, epoch,
                    train_idx, val_idx, training_loss, labels, predictions,
                    training_loss_total, training_loss_avg, val_total, val_avg,
                    telemetry, logged_metrics, logged_confusion, storage, train_seen, val_seen >>
    /\ UNCHANGED resolve_vars

Next ==
    \/ Start
    \/ EpochBegin
    \/ TrainZeroGrad
    \/ TrainForward
    \/ TrainBackward
    \/ TrainStep
    \/ TrainEnd
    \/ ValBatch
    \/ ValEnd
    \/ LogConfusionMatrix
    \/ SaveModel
    \/ Return

Spec == LoopStartInit /\ [][Next]_vars

----------------------------------------------------------------------------
(* Properties of get_optimizer, checked under SpecResolve *)

Returned == rpc = "returned"

\* a hyperparameter that is supplied and not negative
Accepted(x) == (~IsNone(x)) /\ Val(x) >= 0

\* the lower-case form of an identifier
Lower(s) ==
    CASE s \in { "adam", "Adam", "ADAM" } -> "adam"
      [] s \in { "sgd", "SGD", "Sgd" } -> "sgd"
      [] s \in { "rmsprop", "RMSprop", "RMSProp", "RMSPROP" } -> "rmsprop"
      [] OTHER -> s

FamilyOf(s) ==
    CASE s = "adam" -> "Adam"
      [] s = "sgd" -> "SGD"
      [] s = "rmsprop" -> "RMSprop"
      [] OTHER -> "-"

\* C1: a supplied name that matches no recognized identifier makes
\* get_optimizer raise NotImplementedError, whatever learning_rate,
\* weight_decay and momentum are (absent ones included).
C1_UnknownNameRaisesNotImplemented ==
    (Returned /\ (~IsNone(optimizer_name))
              /\ FamilyOf(Lower(Val(optimizer_name))) = "-")
        => /\ chosen_optimizer.status = "raised"
           /\ chosen_optimizer.exc = "NotImplementedError"

\* C2: get_optimizer with optimizer_name = None has the outcome of
\* get_optimizer with "adam" and the same hyperparameters; with accepted
\* hyperparameters that outcome is an Adam optimizer carrying the
\* learning rate and the weight decay passed.
C2_NoneIsAdam ==
    (Returned /\ IsNone(optimizer_name))
        => /\ chosen_optimizer =
                  get_optimizer(Some("adam"), learning_rate, weight_decay, momentum)
           /\ (Accepted(learning_rate) /\ Accepted(weight_decay) /\ Accepted(momentum))
                  => /\ chosen_optimizer.status = "ok"
                     /\ chosen_optimizer.family = "Adam"
                     /\ chosen_optimizer.lr = learning_rate
                     /\ chosen_optimizer.weight_decay = weight_decay

C2_Witness ==
    /\ Returned
    /\ IsNone(optimizer_name)
    /\ chosen_optimizer.status = "ok"
    /\ chosen_optimizer.family = "Adam"
    /\ chosen_optimizer.lr = Some(1)

\* C3 as stated: every casing variant of "adam", "sgd" and "rmsprop" has the
\* outcome of the lower-case identifier with the same hyperparameters, an
\* optimizer of that family when one is built.
C3_EveryCasingResolves ==
    (Returned /\ (~IsNone(optimizer_name))
              /\ FamilyOf(Lower(Val(optimizer_name))) # "-")
        => /\ chosen_optimizer =
                  get_optimizer(Some(Lower(Val(optimizer_name))),
                                learning_rate, weight_decay, momentum)
           /\ chosen_optimizer.status = "ok"
                  => chosen_optimizer.family = FamilyOf(Lower(Val(optimizer_name)))

\* C3 amended: the seven spellings "adam", "Adam", "sgd", "SGD", "rmsprop",
\* "RMSprop", "RMSProp" have the outcome of their family's lower-case
\* identifier with the same hyperparameters, and with accepted
\* hyperparameters that is an optimizer of the family carrying them; any
\* other casing of these identifiers never yields an optimizer.
C3_ListedSpellingsResolve ==
    (Returned /\ (~IsNone(optimizer_name))
              /\ FamilyOf(Lower(Val(optimizer_name))) # "-")
        => IF Val(optimizer_name) \in
                  { "adam", "Adam", "sgd", "SGD", "rmsprop", "RMSprop", "RMSProp" }
           THEN /\ chosen_optimizer =
                       get_optimizer(Some(Lower(Val(optimizer_name))),
                                     learning_rate, weight_decay, momentum)
                /\ (Accepted(learning_rate) /\ Accepted(weight_decay)
                                            /\ Accepted(momentum))
                       => /\ chosen_optimizer.status = "ok"
                          /\ chosen_optimizer.family =
                                 FamilyOf(Lower(Val(optimizer_name)))
                          /\ chosen_optimizer.lr = learning_rate
                          /\ chosen_optimizer.weight_decay = weight_decay
                          /\ chosen_optimizer.family # "Adam"
                                 => chosen_optimizer.momentum = momentum
           ELSE chosen_optimizer.status = "raised"

C3_Witness ==
    /\ Returned
    /\ optimizer_name = Some("RMSProp")
    /\ chosen_optimizer.status = "ok"
    /\ chosen_optimizer.family = "RMSprop"
    /\ chosen_optimizer.momentum = Some(1)

\* C4: with a recognized name (or None), an accepted learning rate and
\* weight_decay and/or momentum absent, get_optimizer returns the optimizer
\* of the family requested, the absent parameter being zero.
C4_AbsentHyperparametersDefault ==
    (/\ Returned
     /\ IsNone(optimizer_name)
           \/ Val(optimizer_name) \in
                  { "adam", "Adam", "sgd", "SGD", "rmsprop", "RMSprop", "RMSProp" }
     /\ Accepted(learning_rate)
     /\ IsNone(weight_decay) \/ IsNone(momentum)
     /\ IsNone(weight_decay) \/ Accepted(weight_decay)
     /\ IsNone(momentum) \/ Accepted(momentum))
        => /\ chosen_optimizer.status = "ok"
           /\ chosen_optimizer.family =
                  (IF IsNone(optimizer_name) THEN "Adam"
                   ELSE FamilyOf(Lower(Val(optimizer_name))))
           /\ IsNone(weight_decay) => chosen_optimizer.weight_decay = Some(0)
           /\ (IsNone(momentum) /\ chosen_optimizer.family # "Adam")
                  => chosen_optimizer.momentum = Some(0)

----------------------------------------------------------------------------
(* Properties of run_training_loop, checked under Spec *)

TrainBatchPcs == { "train_forward", "train_backward", "train_step" }

\* a training batch is being processed, or is about to be
InTrainingBatch ==
    \/ pc \in TrainBatchPcs
    \/ pc = "train_head" /\ train_idx < train_len

RECURSIVE SumUpTo(_, _, _)
\* the sum of value[b] over the batches counted in seen, for b in 1 .. n
SumUpTo(n, seen, value) ==
    IF n = 0 THEN 0 ELSE seen[n] * value[n] + SumUpTo(n - 1, seen, value)

\* the number of batches observed, and the sum of their values
Count(seen) == SumUpTo(MaxLoss, seen, [ b \in Batches |-> 1 ])
TrainSum == SumUpTo(MaxLoss, train_seen, [ l \in Batches |-> l ])
ValSum(f) == SumUpTo(MaxLoss, val_seen, [ b \in Batches |-> ValBatchValues(b)[f] ])

\* the sum of the observed per-batch values over the number observed
AvgSeen(f) == Div(ValSum(f), Count(val_seen))

\* the validation phase of the epoch begun last has completed
EpochCompleted ==
    /\ pc \in { "epoch_head", "return", "done" } \/ (pc = "failed" /\ error = "OSError")
    /\ epoch > 0

\* C5: in every epoch the average training loss and the four validation
\* averages are the sum of that epoch's per-batch values over the number of
\* batches of the stream observed in that epoch; the running totals start at
\* zero in each epoch and hold the sum of the batches observed so far, each
\* batch once.
C5_AveragesArePerEpochMeans ==
    /\ (pc = "train_head" \/ pc \in TrainBatchPcs)
          => /\ training_loss_total = TrainSum
             /\ Count(train_seen) = train_idx
             /\ train_idx = 0 => training_loss_total = 0
    /\ pc = "val_head"
          => /\ training_loss_avg = Div(TrainSum, Count(train_seen))
             /\ Count(train_seen) = train_len
             /\ Count(val_seen) = val_idx
             /\ val_idx = 0 => val_total = Zeros
             /\ \A f \in { "loss", "accuracy", "recall", "precision" } :
                    val_total[f] = ValSum(f)
    /\ EpochCompleted
          => /\ training_loss_avg = Div(TrainSum, Count(train_seen))
             /\ Count(train_seen) = train_len
             /\ Count(val_seen) = val_len
             /\ \A f \in { "loss", "accuracy", "recall", "precision" } :
                    val_avg[f] = AvgSeen(f)
             /\ logged_metrics =
                    MetricsEvent(epoch - 1,
                                 Div(TrainSum, Count(train_seen)),
                                 [ loss |-> AvgSeen("loss"),
                                   accuracy |-> AvgSeen("accuracy"),
                                   recall |-> AvgSeen("recall"),
                                   precision |-> AvgSeen("precision") ])

C5_Witness ==
    /\ pc = "epoch_head"
    /\ epoch = 2
    /\ train_seen[1] = 1
    /\ train_seen[2] = 1
    /\ training_loss_avg = << 3, 2 >>
    /\ Count(val_seen) = 2
    /\ val_avg.loss = << 3, 2 >>
    /\ logged_metrics.val_loss = << 3, 2 >>

\* C6: an epoch whose training or validation provider yields no batch ends
\* the run with ZeroDivisionError: the training phase never goes on to
\* validation, the epoch is never completed, no metrics record is emitted
\* for it, no result is returned and nothing is written to storage.
C6_EmptyStreamIsFatal ==
    /\ pc = "val_head" => train_len # 0
    /\ Len(telemetry) = (IF pc = "log_confusion" THEN 2 * epoch + 1 ELSE 2 * epoch)
    /\ (EpochCompleted \/ pc = "log_confusion") => (train_len # 0 /\ val_len # 0)
    /\ (pc = "failed" /\ error = "ZeroDivisionError")
          => /\ train_len = 0 \/ val_len = 0
             /\ epoch < num_epochs
             /\ result = None
             /\ storage = <<>>
             /\ \A i \in 1 .. Len(telemetry) : telemetry[i].epoch < epoch
    /\ (num_epochs > 0 /\ (result # None \/ storage # <<>>))
          => (train_len # 0 /\ val_len # 0)

C6_Witness ==
    /\ pc = "failed"
    /\ error = "ZeroDivisionError"
    /\ epoch = 1
    /\ train_len = 2
    /\ val_len = 0
    /\ Len(telemetry) = 2

\* C7: the model is in training mode while every training batch of an epoch
\* is processed, in evaluation mode while every validation batch is
\* processed and when the validation phase has completed, and in training
\* mode again for the training batches of the next epoch.
C7_ModeAlternates ==
    /\ InTrainingBatch => mode = "train"
    /\ pc = "val_head" => mode = "eval"
    /\ (pc = "epoch_head" /\ epoch > 0) => mode = "eval"

C7_Witness ==
    /\ pc = "train_step"
    /\ epoch = 1
    /\ mode = "train"
    /\ Len(telemetry) = 2

\* C8: a run of num_epochs >= 1 that completes has written to storage once
\* if save is true and never if it is false; a write is made only after
\* both phases of the final epoch, and what is written is the parameter
\* state after the last optimizer step.
C8_OneWriteAfterFinalEpoch ==
    num_epochs >= 1
        => /\ pc = "done"
                 => /\ Len(storage) = (IF save THEN 1 ELSE 0)
                    /\ params = num_epochs * train_len
           /\ storage # <<>>
                 => /\ save
                    /\ Len(storage) = 1
                    /\ storage[1] = params
                    /\ params = num_epochs * train_len
                    /\ epoch = num_epochs
                    /\ pc \in { "return", "done" }
                    /\ Len(telemetry) = 2 * num_epochs

C8_Witness ==
    /\ pc = "done"
    /\ save
    /\ num_epochs = 2
    /\ train_len = 2
    /\ storage = << 4 >>

C10_SaveFailureKeepsResult ==
    (pc = "failed" /\ error = "OSError" /\ num_epochs >= 1)
        => result = << val_avg.loss, val_avg.accuracy, val_avg.loss,
                       val_avg.precision >>

----------------------------------------------------------------------------
(* Further properties of get_optimizer, checked under SpecResolve *)

\* C11: when Adam is requested (by "adam", "Adam" or None) with an accepted
\* learning rate and weight decay, get_optimizer returns the same Adam
\* optimizer for every momentum supplied, negative ones included.
C11_AdamIgnoresMomentum ==
    (/\ Returned
     /\ IsNone(optimizer_name) \/ Val(optimizer_name) \in { "adam", "Adam" }
     /\ Accepted(learning_rate)
     /\ Accepted(weight_decay)
     /\ ~IsNone(momentum))
        => chosen_optimizer = Built("Adam", learning_rate, weight_decay, None)

\* C12: two calls of get_optimizer with the same arguments return two
\* different optimizer objects, and the internal state of each holds the
\* changes made through it and none of those made through the other.
C12_CallsReturnIndependentInstances ==
    (Returned /\ Len(handles) = 2)
        => /\ handles[1] # handles[2]
           /\ instances[handles[1]] = applied[1]
           /\ instances[handles[2]] = applied[2]

C12_Witness ==
    /\ Returned
    /\ Len(handles) = 2
    /\ applied = << 2, 0 >>
    /\ instances[handles[1]] = 2
    /\ instances[handles[2]] = 0

----------------------------------------------------------------------------
(* Further properties of run_training_loop, checked under Spec *)

\* the calls of one kind the telemetry sink has received
CallsOf(kind) == { i \in 1 .. Len(telemetry) : telemetry[i].kind = kind }

\* C13: in every epoch each training batch is consumed once, in order and
\* before any validation batch of the epoch; each validation batch of the
\* fresh pass is then consumed once, in order; and a training batch of the
\* next epoch is processed only after the last validation batch.
C13_PhasesAreSequential ==
    /\ (pc = "train_head" \/ pc \in TrainBatchPcs)
          => /\ train_idx <= train_len
             /\ Count(train_seen) = train_idx
             /\ val_seen = NoneSeen
             /\ epoch > 0 => (val_idx = val_len /\ Len(telemetry) = 2 * epoch)
    /\ pc \in TrainBatchPcs => train_idx < train_len
    /\ pc \in { "train_backward", "train_step" }
          => labels = << "train", epoch, train_idx >>
    /\ pc = "val_head"
          => /\ train_idx = train_len
             /\ Count(train_seen) = train_len
             /\ val_idx <= val_len
             /\ Count(val_seen) = val_idx
             /\ val_idx > 0 => labels = << "val", epoch, val_idx - 1 >>
    /\ (pc = "log_confusion" \/ EpochCompleted)
          => /\ Count(train_seen) = train_len
             /\ val_idx = val_len
             /\ Count(val_seen) = val_len

C13_Witness ==
    /\ pc = "train_backward"
    /\ epoch = 1
    /\ train_idx = 1
    /\ labels = << "train", 1, 1 >>
    /\ val_len = 2
    /\ val_idx = 2

\* C14: every optimizer step is applied to the gradient of one backward
\* pass, that of the current batch: the gradients are clear when a batch's
\* backward pass starts, and every step so far moved the parameters by one
\* batch's gradient, in every epoch.
C14_OneBackwardPerStep ==
    /\ pc \in { "train_forward", "train_backward" } => grads = 0
    /\ pc = "train_step" => grads = 1
    /\ (pc = "train_head" \/ pc \in TrainBatchPcs)
          => params = epoch * train_len + train_idx

C14_Witness ==
    /\ pc = "train_step"
    /\ epoch = 1
    /\ train_idx = 1
    /\ grads = 1
    /\ params = 3

\* C16: gradient tracking is suspended while every validation batch is
\* processed and is in effect while every training batch is processed, in
\* every epoch.
C16_NoGradScopedToValidation ==
    /\ pc = "val_head" => ~grad_enabled
    /\ pc = "log_confusion" => ~grad_enabled
    /\ InTrainingBatch => grad_enabled

C16_Witness ==
    /\ pc = "train_backward"
    /\ epoch = 1
    /\ grad_enabled
    /\ Len(telemetry) = 2

\* the training phases completed so far
TrainingPhasesDone ==
    IF \/ pc \in { "val_head", "log_confusion" }
       \/ pc = "failed" /\ error = "ZeroDivisionError" /\ train_len # 0
    THEN epoch + 1
    ELSE epoch

\* C15: while the model is in evaluation mode (validation, and after it up
\* to the next epoch or the end of the run) the parameters are those the
\* epoch's last training step left and the gradients those of its last
\* backward pass: no step, no backward pass and no clear has occurred.
C15_ValidationLeavesParameters ==
    mode = "eval"
        => /\ params = TrainingPhasesDone * train_len
           /\ grads = 1

C15_Witness ==
    /\ pc = "val_head"
    /\ epoch = 1
    /\ val_idx = 2
    /\ mode = "eval"
    /\ params = 4

\* the calls of one kind, in the order received
CallSeq(kind) == SelectSeq(telemetry, LAMBDA c : c.kind = kind)

\* the index of the epoch whose validation phase ended last
LastEpoch == IF pc = "log_confusion" THEN epoch ELSE epoch - 1

\* C17: the telemetry sink receives one metrics record per epoch, in the
\* order 0, 1, ..., each after the epoch's last validation batch and before
\* the next epoch's first training batch, num_epochs of them in a completed
\* run, each carrying the epoch index and the five averages of its epoch.
C17_OneMetricsRecordPerEpoch ==
    /\ \A k \in 1 .. Len(CallSeq("metrics")) : CallSeq("metrics")[k].epoch = k - 1
    /\ Len(CallSeq("metrics")) = LastEpoch + 1
    /\ pc = "done" => Len(CallSeq("metrics")) = num_epochs
    /\ (pc = "log_confusion" \/ EpochCompleted)
          => logged_metrics =
                 [ epoch |-> Some(LastEpoch),
                   training_loss |-> Div(TrainSum, Count(train_seen)),
                   val_loss |-> AvgSeen("loss"),
                   accuracy |-> AvgSeen("accuracy"),
                   recall |-> AvgSeen("recall"),
                   precision |-> AvgSeen("precision") ]

C17_Witness ==
    /\ pc = "done"
    /\ num_epochs = 2
    /\ Len(CallSeq("metrics")) = 2
    /\ logged_metrics.epoch = Some(1)
    /\ logged_metrics.training_loss = << 3, 2 >>
    /\ logged_metrics.recall = << 2, 1 >>

\* C18: one confusion matrix is reported per epoch, right after the metrics
\* record of the same epoch, built from the labels and predictions of the
\* last validation batch of that epoch.
C18_ConfusionMatrixOfLastBatch ==
    /\ \A k \in 1 .. Len(CallSeq("confusion")) : CallSeq("confusion")[k].epoch = k - 1
    /\ Len(CallSeq("confusion")) = epoch
    /\ \A i \in 1 .. Len(telemetry) :
          telemetry[i].kind = "confusion"
              => (i > 1 /\ telemetry[i - 1] = Call("metrics", telemetry[i].epoch))
    /\ EpochCompleted
          => logged_confusion =
                 [ y_true |-> << "val", epoch - 1, val_len - 1 >>,
                   y_predicted |-> << "val", epoch - 1, val_len - 1 >> ]

C18_Witness ==
    /\ pc = "epoch_head"
    /\ epoch = 2
    /\ val_len = 2
    /\ Len(CallSeq("confusion")) = 2
    /\ logged_confusion.y_true = << "val", 1, 1 >>

\* a step in which a batch goes through the model's forward pass
ForwardStep ==
    \/ pc = "train_forward"
    \/ pc = "val_head" /\ val_idx' = val_idx + 1

\* C19: the device is chosen before the first epoch, the model is put on
\* it, neither changes afterwards, and at every forward pass of either
\* phase the batch is on the device of the model.
C19_DeviceFixedAndShared ==
    [][ /\ pc = "start" => (device' \in { "cuda", "cpu" } /\ model_device' = device')
        /\ pc # "start" => (device' = device /\ model_device' = model_device)
        /\ ForwardStep => batch_device' = model_device' ]_vars

C19_Witness ==
    /\ pc = "val_head"
    /\ epoch = 1
    /\ val_idx = 1
    /\ device = "cuda"
    /\ model_device = "cuda"
    /\ batch_device = "cuda"

\* C20: parameters are written to storage only in a run that has completed
\* the validation phase of at least one epoch and that returns its result;
\* a run that fails has written nothing.
C20_WriteOnlyInReturningRun ==
    /\ storage # <<>> => (epoch >= 1 /\ Len(telemetry) >= 2)
    /\ pc = "failed" => storage = <<>>

====
